---- MODULE Spec2Model ----
(***************************************************************************)
(* Cafe verification and bean-drop state machine of the IBeanThere         *)
(* backend (apps/be/app/api/v1/cafes.py, visits.py, core/fraud_detection,  *)
(* core/permissions).  The relational store is modelled as tables (one     *)
(* sequence of rows per table, a row's id is its position); every HTTP     *)
(* handler is one action in Spec, and the register handler is split into   *)
(* its separate store round trips in SpecConc.                             *)
(*                                                                         *)
(* Coordinates are fixed-point degrees in units of 1e-5 degree.  Time is   *)
(* an integer tick; TicksPerDay ticks make one UTC calendar day.           *)
(***************************************************************************)
EXTENDS Integers, Sequences, FiniteSets, TLC

VARIABLES cafes, cafe_checkins, cafe_beans, cafe_bean_drops, cafe_visits,
          users, fraud_logs, now, nops, nadv, limits, trending, resp, inflight

vars == <<cafes, cafe_checkins, cafe_beans, cafe_bean_drops, cafe_visits,
          users, fraud_logs, now, nops, nadv, limits, trending, resp, inflight>>

store == <<cafes, cafe_checkins, cafe_beans, cafe_bean_drops, cafe_visits,
           users, fraud_logs>>

-----------------------------------------------------------------------------
(* Bounds of the model *)

\* accepted (state-changing) requests in one behaviour of Spec, which runs
\* within one calendar day
MaxOps == 5
\* accepted requests and calendar advances in one behaviour of SpecBean
MaxBeanOps == 4
MaxBeanAdv == 2
\* register requests in one behaviour of SpecGeo and of SpecConc
MaxGeoOps == 4
MaxReq == 3

\* clock resolution: ticks per UTC day, and their length in seconds
TicksPerDay == 8
SecondsPerTick == 86400 \div TicksPerDay

-----------------------------------------------------------------------------
(* Users, roles, permissions *)

Users == {"u1", "u2", "u3"}
NoUser == "none"

\* users.role as stored on the profile (deps.py get_current_user); a caller
\* without a users row resolves to "user"
RoleOf(u) ==
    CASE u = "u3"           -> "admin"
      [] u \in {"u1", "u2"} -> "cafe_owner"
      [] u = "u4"           -> "user"
      [] u = "u5"           -> "guest"
      [] OTHER              -> "user"

ROLE_PERMISSIONS(role) ==
    CASE role = "admin"      -> {"cafe:create", "admin:verify_cafe"}
      [] role = "cafe_owner" -> {"cafe:create"}
      [] role = "user"       -> {}
      [] role = "guest"      -> {}
      [] OTHER               -> {}

\* require_permission without the membership test
require_permission_M(u, perm) == perm \in ROLE_PERMISSIONS(RoleOf(u)) \/ TRUE

require_permission(u, perm) == perm \in ROLE_PERMISSIONS(RoleOf(u))

require_admin_role(u) == RoleOf(u) = "admin"

-----------------------------------------------------------------------------
(* GeoMath *)

Abs(x) == IF x < 0 THEN -x ELSE x

Max(a, b) == IF a >= b THEN a ELSE b

RECURSIVE SqrtIter(_, _)
SqrtIter(n, x) ==
    LET y == (x + (n \div x)) \div 2
    IN  IF y >= x THEN x ELSE SqrtIter(n, y)

\* floor of the square root
ISqrt(n) == IF n <= 0 THEN 0 ELSE SqrtIter(n, n)

\* cos(latitude) * 10^4, tabulated per whole degree of the latitudes in use
CosE4(lat) ==
    LET deg == Abs(lat) \div 100000
    IN  CASE deg = 0  -> 10000
          [] deg = 43 -> 7314
          [] deg = 60 -> 5000
          [] OTHER    -> 10000

\* (1e-5 degree of arc on the R = 6371000 m sphere is 1.11195 m;
\*  10^4 / 1.11195^2 = 8088: squared scaled units per square metre)
UnitsSqPerM2 == 8088

\* Haversine distance in decimetres (floor).  For close points (below
\* 0.004 degree) a = sin^2(dlat/2) + cos cos sin^2(dlng/2) and
\* c = 2 atan2(sqrt a, sqrt(1-a)) are computed by their small-angle values;
\* for distant points the arc is taken in units of 0.001 degree (111.2 m),
\* which is the length of the great circle between points of one meridian.
calculate_earth_distance(lat1, lng1, lat2, lng2) ==
    LET dlat == lat2 - lat1
        dlng == lng2 - lng1
        cc   == (CosE4(lat1) * CosE4(lat2)) \div 10000
        a    == 10000 * dlat * dlat + cc * dlng * dlng
        dm2  == (a \div UnitsSqPerM2) * 100 + ((a % UnitsSqPerM2) * 100) \div UnitsSqPerM2
        klat == dlat \div 100
        klng == dlng \div 100
    IN  IF Abs(dlat) < 400 /\ Abs(dlng) < 400
        THEN ISqrt(dm2)
        ELSE ISqrt(klat * klat + (cc * ((klng * klng) \div 100)) \div 100) * 1112

\* metres -> decimetres, the unit of calculate_earth_distance
Dm(m) == 10 * m

-----------------------------------------------------------------------------
(* The store *)

NoTime == -1
NoLoc == [lat |-> 0, lng |-> 0, given |-> FALSE]

Loc(lat, lng) == [lat |-> lat, lng |-> lng, given |-> TRUE]

\* date_parser.parse(ts).date() and datetime.now(timezone.utc).date()
DateOf(ts) == ts \div TicksPerDay

\* supabase.table(t).update(update_data).eq("id", id): the named columns only
ApplyUpdate(row, update_data) ==
    [f \in DOMAIN row |-> IF f \in DOMAIN update_data THEN update_data[f] ELSE row[f]]

UpdateRow(table, id, update_data) ==
    [table EXCEPT ![id] = ApplyUpdate(table[id], update_data)]

Min(S) == CHOOSE x \in S : \A y \in S : x <= y

\* the response body of the last accepted request.  A request that raises
\* HTTPException before any write changes no state: it is the guard of its
\* action, and its error kind is the value of the handler's *_error operator.
Response(op, u, cafe_id, triggered) ==
    [op |-> op, user |-> u, cafe_id |-> cafe_id, triggered_verification |-> triggered]

NoResponse == Response("none", NoUser, 0, FALSE)

\* an accepted request takes one tick of the current day
CanAccept ==
    /\ nops < limits.ops
    /\ DateOf(now + 1) = DateOf(now)

Accepted ==
    /\ now' = now + 1
    /\ nops' = nops + 1
    /\ UNCHANGED <<nadv, limits, trending, inflight>>

-----------------------------------------------------------------------------
(* CafeRegistry: duplicate detection *)

\* the bounding-box prefetch of check_nearby_cafes: latitude within
\* t/111000 degree, longitude within t/(111000*abs(lat)) degree (t/111000
\* when lat = 0), both bounds inclusive
InBoundingBox(lat, lng, t, cafe) ==
    /\ Abs(cafe.latitude - lat) * 111 <= t * 100
    /\ IF lat # 0
         THEN Abs(cafe.longitude - lng) <= ((t * 10000000) \div 111) \div Abs(lat)
         ELSE Abs(cafe.longitude - lng) * 111 <= t * 100

\* ids of the rows check_nearby_cafes may return (the query states no order,
\* the loop returns the first row below the threshold); {} is None
check_nearby_cafes(lat, lng, threshold_meters) ==
    {i \in DOMAIN cafes :
        /\ InBoundingBox(lat, lng, threshold_meters, cafes[i])
        /\ calculate_earth_distance(lat, lng, cafes[i].latitude, cafes[i].longitude)
             < Dm(threshold_meters)}

-----------------------------------------------------------------------------
(* FoundingCrewAssigner: the check-in path of register_cafe *)

HasCheckin(cafe_id, u) ==
    \E i \in DOMAIN cafe_checkins :
        cafe_checkins[i].cafe_id = cafe_id /\ cafe_checkins[i].user_id = u

\* checkin_data built from the cafe row as it is stored at the insert
CheckinData_M(existing_cafe, cafe_id, u) ==
    LET new_count == cafes[cafe_id].verification_count
    IN  [cafe_id |-> cafe_id, user_id |-> u, checkin_order |-> new_count,
         founding_role |-> IF new_count = 1 THEN "navigator" ELSE "vanguard",
         triggered_verification |-> (new_count = 3)]

\* checkin_data built from the cafe row the request read
CheckinData(existing_cafe, cafe_id, u) ==
    LET new_count == existing_cafe.verification_count + 1
    IN  [cafe_id |-> cafe_id, user_id |-> u, checkin_order |-> new_count,
         founding_role |-> IF new_count = 1 THEN "navigator" ELSE "vanguard",
         triggered_verification |-> (new_count = 3)]

\* CheckinUpdateData with the status column written on every check-in
CheckinUpdateData_M(existing_cafe, u, t) ==
    LET new_count == existing_cafe.verification_count + 1
    IN  IF new_count # 3
        THEN [verification_count |-> new_count, status |-> "pending"]
        ELSE [verification_count |-> new_count, status |-> "verified",
              verified_at |-> t,
              vanguard_ids |-> Append(existing_cafe.vanguard_ids,
                   [user_id |-> u, role |-> new_count, verified_at |-> t])]

\* update_data built from the cafe row the request read; a vanguard's role
\* "vanguard_<n>" is kept as its number n
CheckinUpdateData(existing_cafe, u, t) ==
    LET new_count == existing_cafe.verification_count + 1
    IN  IF new_count # 3 THEN [verification_count |-> new_count]
        ELSE IF new_count = 1
             THEN [verification_count |-> new_count, status |-> "verified",
                   verified_at |-> t, navigator_id |-> u]
             ELSE [verification_count |-> new_count, status |-> "verified",
                   verified_at |-> t,
                   vanguard_ids |-> Append(existing_cafe.vanguard_ids,
                        [user_id |-> u, role |-> new_count, verified_at |-> t])]

\* RegisterCheckin with the cafes update left out
RegisterCheckin_M(u, cafe_id) ==
    LET existing_cafe == cafes[cafe_id]
        checkin_data == CheckinData(existing_cafe, cafe_id, u)
    IN  /\ ~HasCheckin(cafe_id, u)
        /\ CanAccept
        /\ cafe_checkins' = Append(cafe_checkins, checkin_data)
        /\ resp' = Response("register", u, cafe_id, checkin_data.triggered_verification)
        /\ Accepted
        /\ UNCHANGED <<cafes, cafe_beans, cafe_bean_drops, cafe_visits, users, fraud_logs>>

\* register_cafe, existing cafe found within 25 m (lines 726-799)
RegisterCheckin(u, cafe_id) ==
    LET existing_cafe == cafes[cafe_id]
        checkin_data == CheckinData(existing_cafe, cafe_id, u)
    IN  /\ ~HasCheckin(cafe_id, u)
        /\ CanAccept
        /\ cafes' = UpdateRow(cafes, cafe_id, CheckinUpdateData(existing_cafe, u, now))
        /\ cafe_checkins' = Append(cafe_checkins, checkin_data)
        /\ resp' = Response("register", u, cafe_id, checkin_data.triggered_verification)
        /\ Accepted
        /\ UNCHANGED <<cafe_beans, cafe_bean_drops, cafe_visits, users, fraud_logs>>

\* RegisterNew with the drop event of the seed bean left out
RegisterNew_M(u, lat, lng) ==
    LET cafe_id == Len(cafes) + 1
    IN  /\ CanAccept
        /\ cafes' = Append(cafes,
              [latitude |-> lat, longitude |-> lng, status |-> "pending",
               verification_count |-> 1, admin_verified |-> FALSE,
               verified_at |-> NoTime, navigator_id |-> u, vanguard_ids |-> <<>>])
        /\ cafe_checkins' = Append(cafe_checkins,
              [cafe_id |-> cafe_id, user_id |-> u, checkin_order |-> 1,
               founding_role |-> "navigator", triggered_verification |-> FALSE])
        /\ cafe_beans' = Append(cafe_beans,
              [cafe_id |-> cafe_id, user_id |-> u, drop_count |-> 1,
               growth_level |-> 1, last_latitude |-> lat, last_longitude |-> lng,
               first_dropped_at |-> now, last_dropped_at |-> now])
        /\ resp' = Response("register", u, cafe_id, FALSE)
        /\ Accepted
        /\ UNCHANGED <<cafe_bean_drops, cafe_visits, users, fraud_logs>>

\* register_cafe, no cafe within 25 m: cafe, navigator check-in, seed bean
\* and its drop event (lines 801-879)
RegisterNew(u, lat, lng) ==
    LET cafe_id == Len(cafes) + 1
        bean_id == Len(cafe_beans) + 1
    IN  /\ CanAccept
        /\ cafes' = Append(cafes,
              [latitude |-> lat, longitude |-> lng, status |-> "pending",
               verification_count |-> 1, admin_verified |-> FALSE,
               verified_at |-> NoTime, navigator_id |-> u, vanguard_ids |-> <<>>])
        /\ cafe_checkins' = Append(cafe_checkins,
              [cafe_id |-> cafe_id, user_id |-> u, checkin_order |-> 1,
               founding_role |-> "navigator", triggered_verification |-> FALSE])
        /\ cafe_beans' = Append(cafe_beans,
              [cafe_id |-> cafe_id, user_id |-> u, drop_count |-> 1,
               growth_level |-> 1, last_latitude |-> lat, last_longitude |-> lng,
               first_dropped_at |-> now, last_dropped_at |-> now])
        /\ cafe_bean_drops' = Append(cafe_bean_drops,
              [bean_id |-> bean_id, user_id |-> u, cafe_id |-> cafe_id,
               latitude |-> lat, longitude |-> lng, dropped_at |-> now])
        /\ resp' = Response("register", u, cafe_id, FALSE)
        /\ Accepted
        /\ UNCHANGED <<cafe_visits, users, fraud_logs>>

\* the HTTPException register_cafe raises before the duplicate check
\* (lines 669-712), "" when it raises none
register_error(u, lat, lng, user_location, road) ==
    IF ~require_permission(u, "cafe:create") THEN "Forbidden"
    ELSE IF /\ user_location.given
            /\ user_location.lat # 0 /\ user_location.lng # 0
            /\ calculate_earth_distance(user_location.lat, user_location.lng, lat, lng)
                 > Dm(50)
    THEN "LocationTooFar"
    ELSE IF ~road THEN "InvalidLocation"
    ELSE ""

\* the 409 of the check-in path (lines 730-741) for the cafe the request matched
checkin_error(u, cafe_id) ==
    IF HasCheckin(cafe_id, u) THEN "AlreadyCheckedIn" ELSE ""

\* POST /cafes/register
register_cafe(u, lat, lng, user_location, road) ==
    /\ register_error(u, lat, lng, user_location, road) = ""
    /\ IF check_nearby_cafes(lat, lng, 25) # {}
       THEN \E cafe_id \in check_nearby_cafes(lat, lng, 25) :
                /\ checkin_error(u, cafe_id) = ""
                /\ RegisterCheckin(u, cafe_id)
       ELSE RegisterNew(u, lat, lng)

-----------------------------------------------------------------------------
(* FraudHeuristic *)

\* fraud_detection.calculate_distance_meters: the same Haversine formula
\* on the same sphere, in metres (floor)
calculate_distance_meters(lat1, lng1, lat2, lng2) ==
    calculate_earth_distance(lat1, lng1, lat2, lng2) \div 10

\* speed in hundredths of km/h (floor); the caller passes time_seconds > 0
calculate_speed_kmh(distance_meters, time_seconds) ==
    (distance_meters * 360) \div time_seconds

\* speed_kmh in hundredths of km/h
determine_severity(speed_kmh) ==
    IF speed_kmh > 100000 THEN "high"
    ELSE IF speed_kmh > 20000 THEN "medium"
    ELSE IF speed_kmh > 10000 THEN "low"
    ELSE "none"

\* the user's most recently updated bean, as {[lat, lng, timestamp]} with the
\* coordinates of that bean's cafe; {} is None
get_last_drop_location(u) ==
    LET mine == {i \in DOMAIN cafe_beans : cafe_beans[i].user_id = u}
        last == {i \in mine : \A j \in mine :
                    cafe_beans[j].last_dropped_at <= cafe_beans[i].last_dropped_at}
    IN  {[lat |-> cafes[cafe_beans[i].cafe_id].latitude,
          lng |-> cafes[cafe_beans[i].cafe_id].longitude,
          timestamp |-> cafe_beans[i].last_dropped_at] : i \in last}

\* the fraud_logs rows log_suspicious_activity inserts (none or one)
log_suspicious_activity(u, action_type, current_lat, current_lng, previous) ==
    LET has_prev == previous.lat # 0 /\ previous.lng # 0
        distance_meters ==
            calculate_distance_meters(current_lat, current_lng, previous.lat, previous.lng)
        time_delta_seconds == (now - previous.timestamp) * SecondsPerTick
        has_speed == has_prev /\ time_delta_seconds > 0
        speed_kmh == calculate_speed_kmh(distance_meters, time_delta_seconds)
        severity == IF has_speed THEN determine_severity(speed_kmh) ELSE "low"
    IN  IF severity = "none" THEN <<>>
        ELSE <<[user_id |-> u, action_type |-> action_type,
                current_lat |-> current_lat, current_lng |-> current_lng,
                has_speed |-> has_speed, severity |-> severity]>>

\* rows appended to fraud_logs; the check itself always allows the action
check_location_consistency(u, current_lat, current_lng, action_type) ==
    LET last_location == get_last_drop_location(u)
    IN  IF last_location = {} THEN <<>>
        ELSE log_suspicious_activity(u, action_type, current_lat, current_lng,
                                     CHOOSE l \in last_location : TRUE)

-----------------------------------------------------------------------------
(* BeanProgress and StreakTracker *)

\* calculate_growth_level with the top level reached one drop late
calculate_growth_level_M(drop_count) ==
    IF drop_count > 15 THEN 5
    ELSE IF drop_count >= 10 THEN 4
    ELSE IF drop_count >= 5 THEN 3
    ELSE IF drop_count >= 3 THEN 2
    ELSE 1

calculate_growth_level(drop_count) ==
    IF drop_count >= 15 THEN 5
    ELSE IF drop_count >= 10 THEN 4
    ELSE IF drop_count >= 5 THEN 3
    ELSE IF drop_count >= 3 THEN 2
    ELSE 1

\* the cafe_beans rows of (cafe, user)
BeansOf(beans, cafe_id, u) ==
    {i \in DOMAIN beans : beans[i].cafe_id = cafe_id /\ beans[i].user_id = u}

\* sorted(drop_dates, reverse=True): position k holds the date with k - 1
\* later dates
SortedDesc(S) ==
    [k \in 1..Cardinality(S) |->
        CHOOSE d \in S : Cardinality({e \in S : e > d}) = k - 1]

\* the loop over adjacent pairs with a gap of 7 days breaking the streak
StreakFrom_M(sorted_dates, i) ==
    LET breaks == {k \in i..(Len(sorted_dates) - 1) :
                      sorted_dates[k] - sorted_dates[k + 1] >= 7}
    IN  IF breaks = {} THEN Max(Len(sorted_dates) - i, 0) ELSE Min(breaks) - i

\* the loop over adjacent pairs of sorted_dates, from pair i on: the number
\* of pairs before the first one with a gap of more than 7 days
StreakFrom(sorted_dates, i) ==
    LET breaks == {k \in i..(Len(sorted_dates) - 1) :
                      sorted_dates[k] - sorted_dates[k + 1] > 7}
    IN  IF breaks = {} THEN Max(Len(sorted_dates) - i, 0) ELSE Min(breaks) - i

\* .limit(100) of the drop history query
DropsLimit == 100

\* the user's rows of cafe_bean_drops, most recent DropsLimit of them
\* (.order("dropped_at", desc=True).limit(100))
RecentDrops(drops, u) ==
    LET mine == {j \in DOMAIN drops : drops[j].user_id = u}
        Newer(i) == {j \in mine : \/ drops[j].dropped_at > drops[i].dropped_at
                                  \/ /\ drops[j].dropped_at = drops[i].dropped_at
                                     /\ j > i}
    IN  IF Cardinality(mine) <= DropsLimit THEN mine
        ELSE {i \in mine : Cardinality(Newer(i)) < DropsLimit}

\* current_streak of calculate_user_streak for the distinct drop dates
CurrentStreak(drop_dates, today) ==
    LET sorted_dates == IF today \in drop_dates THEN SortedDesc(drop_dates)
                        ELSE <<today>> \o SortedDesc(drop_dates)
    IN  1 + StreakFrom(sorted_dates, 1)

\* calculate_user_streak with max_streak taken from this computation alone
calculate_user_streak_M(drops, u) ==
    LET drop_dates == {DateOf(drops[i].dropped_at) : i \in RecentDrops(drops, u)}
        today == DateOf(now)
        current_streak == CurrentStreak(drop_dates, today)
    IN  [current_streak |-> current_streak,
         max_streak |-> current_streak,
         last_drop_date |-> today]

\* calculate_user_streak: the users row it persists, computed from the drop
\* events `drops` (already holding today's drop) and the stored max_streak
calculate_user_streak(drops, u) ==
    LET drop_dates == {DateOf(drops[i].dropped_at) : i \in RecentDrops(drops, u)}
        today == DateOf(now)
        current_streak == CurrentStreak(drop_dates, today)
        stored_max_streak == IF users[u].max_streak = 0 THEN 1 ELSE users[u].max_streak
    IN  [current_streak |-> current_streak,
         max_streak |-> Max(current_streak, stored_max_streak),
         last_drop_date |-> today]

\* the first n rows among `ids` of the bean table by first_dropped_at
\* ascending (.order("first_dropped_at").limit(n))
RECURSIVE FirstDroppers(_, _, _)
FirstDroppers(beans, ids, n) ==
    IF n = 0 \/ ids = {} THEN <<>>
    ELSE LET b == CHOOSE i \in ids : \A j \in ids :
                     /\ beans[i].first_dropped_at <= beans[j].first_dropped_at
                     /\ (beans[i].first_dropped_at = beans[j].first_dropped_at => i <= j)
         IN  <<b>> \o FirstDroppers(beans, ids \ {b}, n - 1)

\* vanguard_ids built by drop_bean: every one of the first three droppers
\* that is not the recorded navigator, with role "vanguard_<idx+1>"
BeanVanguards(beans, founding_drops, navigator_id, t) ==
    LET F[k \in 0..Len(founding_drops)] ==
            IF k = 0 THEN <<>>
            ELSE IF beans[founding_drops[k]].user_id # navigator_id
                 THEN Append(F[k - 1],
                        [user_id |-> beans[founding_drops[k]].user_id,
                         role |-> k, verified_at |-> t])
                 ELSE F[k - 1]
    IN  F[Len(founding_drops)]

\* step 9 of drop_bean: does the drop verify the cafe, given the bean table
\* it has just written
BeanVerifies(beans, cafe_id) ==
    LET rows == {i \in DOMAIN beans : beans[i].cafe_id = cafe_id}
        unique_user_ids == {beans[i].user_id : i \in rows}
    IN  cafes[cafe_id].status = "pending" /\ Cardinality(unique_user_ids) >= 3

\* step 9 of drop_bean: the cafes table after the auto-verification check
BeanVerification(beans, cafe_id) ==
    LET rows == {i \in DOMAIN beans : beans[i].cafe_id = cafe_id}
        founding_drops == FirstDroppers(beans, rows, 3)
    IN  IF BeanVerifies(beans, cafe_id)
        THEN UpdateRow(cafes, cafe_id,
                [status |-> "verified", verified_at |-> now,
                 vanguard_ids |-> BeanVanguards(beans, founding_drops,
                                                cafes[cafe_id].navigator_id, now)])
        ELSE cafes

\* step 5 of drop_bean: the bean table after the update of the row it found
\* or, with none (0), the insert of a new row
BeanWrite(u, cafe_id, user_lat, user_lng, existing) ==
    LET new_drop_count == IF existing = 0 THEN 1 ELSE cafe_beans[existing].drop_count + 1
    IN  IF existing = 0
        THEN Append(cafe_beans,
               [cafe_id |-> cafe_id, user_id |-> u, drop_count |-> 1,
                growth_level |-> 1, last_latitude |-> user_lat,
                last_longitude |-> user_lng,
                first_dropped_at |-> now, last_dropped_at |-> now])
        ELSE UpdateRow(cafe_beans, existing,
               [drop_count |-> new_drop_count,
                growth_level |-> calculate_growth_level(new_drop_count),
                last_latitude |-> user_lat, last_longitude |-> user_lng,
                last_dropped_at |-> now])

\* steps 5-9 of drop_bean for the bean row it found (0: none)
DropAccepted(u, cafe_id, user_lat, user_lng, existing) ==
    LET bean_id == IF existing = 0 THEN Len(cafe_beans) + 1 ELSE existing
    IN  /\ CanAccept
        /\ cafe_beans' = BeanWrite(u, cafe_id, user_lat, user_lng, existing)
        /\ cafe_bean_drops' = Append(cafe_bean_drops,
              [bean_id |-> bean_id, user_id |-> u, cafe_id |-> cafe_id,
               latitude |-> user_lat, longitude |-> user_lng, dropped_at |-> now])
        /\ users' = [users EXCEPT ![u] = calculate_user_streak(cafe_bean_drops', u)]
        /\ cafes' = BeanVerification(cafe_beans', cafe_id)
        /\ resp' = Response("drop_bean", u, cafe_id, BeanVerifies(cafe_beans', cafe_id))
        /\ Accepted
        /\ UNCHANGED <<cafe_checkins, cafe_visits>>

\* rejected requests that leave a fraud log are followed up to this many rows
MaxFraudLogs == 2

\* AlreadyDroppedToday is raised after the fraud check has written its log
DropRejectedToday ==
    /\ fraud_logs' # fraud_logs
    /\ Len(fraud_logs) < MaxFraudLogs
    /\ UNCHANGED <<cafes, cafe_checkins, cafe_beans, cafe_bean_drops, cafe_visits,
                   users, now, nops, nadv, limits, trending, resp, inflight>>

\* drop_bean_error with the daily limit comparing timestamps, not dates
drop_bean_error_M(u, cafe_id, user_lat, user_lng, existing) ==
    IF cafe_id \notin DOMAIN cafes THEN "CafeNotFound"
    ELSE IF calculate_earth_distance(user_lat, user_lng,
                cafes[cafe_id].latitude, cafes[cafe_id].longitude) > Dm(50)
    THEN "DistanceTooFar"
    ELSE IF existing # 0 /\ cafe_beans[existing].last_dropped_at = now
    THEN "AlreadyDroppedToday"
    ELSE ""

\* drop_bean_error with the distance limit itself rejected
drop_bean_error_G(u, cafe_id, user_lat, user_lng, existing) ==
    IF cafe_id \notin DOMAIN cafes THEN "CafeNotFound"
    ELSE IF calculate_earth_distance(user_lat, user_lng,
                cafes[cafe_id].latitude, cafes[cafe_id].longitude) >= Dm(50)
    THEN "DistanceTooFar"
    ELSE IF existing # 0
            /\ DateOf(cafe_beans[existing].last_dropped_at) = DateOf(now)
    THEN "AlreadyDroppedToday"
    ELSE ""

\* the HTTPException drop_bean raises (lines 1470-1523) when it finds the bean
\* row `existing` (0: none), "" when it raises none
drop_bean_error(u, cafe_id, user_lat, user_lng, existing) ==
    IF cafe_id \notin DOMAIN cafes THEN "CafeNotFound"
    ELSE IF calculate_earth_distance(user_lat, user_lng,
                cafes[cafe_id].latitude, cafes[cafe_id].longitude) > Dm(50)
    THEN "DistanceTooFar"
    ELSE IF existing # 0
            /\ DateOf(cafe_beans[existing].last_dropped_at) = DateOf(now)
    THEN "AlreadyDroppedToday"
    ELSE ""

\* the bean rows bean_result.data[0] may be (0: no row)
ExistingBean(cafe_id, u) ==
    IF BeansOf(cafe_beans, cafe_id, u) = {} THEN {0} ELSE BeansOf(cafe_beans, cafe_id, u)

\* the rows the fraud check of drop_bean (lines 1493-1500) appends: those of
\* check_location_consistency, or none when a store call inside it raises
\* (both helpers catch every exception)
FraudCheck(u, user_lat, user_lng) ==
    {check_location_consistency(u, user_lat, user_lng, "drop_bean"), <<>>}

\* drop_bean refusing the drop when the fraud check has logged an anomaly
drop_bean_M(u, cafe_id, user_lat, user_lng) ==
    \E existing \in ExistingBean(cafe_id, u), logged \in FraudCheck(u, user_lat, user_lng) :
        LET error == drop_bean_error(u, cafe_id, user_lat, user_lng, existing)
        IN  /\ error \in {"", "AlreadyDroppedToday"}
            /\ fraud_logs' = fraud_logs \o logged
            /\ IF error = "" /\ logged = <<>>
               THEN DropAccepted(u, cafe_id, user_lat, user_lng, existing)
               ELSE DropRejectedToday

\* POST /cafes/{cafe_id}/drop-bean
drop_bean(u, cafe_id, user_lat, user_lng) ==
    \E existing \in ExistingBean(cafe_id, u), logged \in FraudCheck(u, user_lat, user_lng) :
        LET error == drop_bean_error(u, cafe_id, user_lat, user_lng, existing)
        IN  /\ error \in {"", "AlreadyDroppedToday"}
            /\ fraud_logs' = fraud_logs \o logged
            /\ IF error = "" THEN DropAccepted(u, cafe_id, user_lat, user_lng, existing)
               ELSE DropRejectedToday

-----------------------------------------------------------------------------
(* Visit log with its automatic bean drop *)

\* default of cafe_beans.growth_level when an insert leaves it out
GrowthLevelDefault == 1

\* the auto drop of record_cafe_visit (visits.py 271-312): the bean table
\* after it.  single_raises: .single() on no row raises (swallowed by the
\* except) instead of returning no data.
VisitAutoDrop(u, cafe_id, single_raises) ==
    LET mine == BeansOf(cafe_beans, cafe_id, u)
        today_start == DateOf(now) * TicksPerDay
    IN  IF mine = {}
        THEN IF single_raises THEN cafe_beans
             ELSE Append(cafe_beans,
                    [cafe_id |-> cafe_id, user_id |-> u, drop_count |-> 1,
                     growth_level |-> GrowthLevelDefault,
                     last_latitude |-> 0, last_longitude |-> 0,
                     first_dropped_at |-> now, last_dropped_at |-> now])
        ELSE LET existing_bean == Min(mine)
             IN  IF cafe_beans[existing_bean].last_dropped_at >= today_start
                 THEN cafe_beans
                 ELSE UpdateRow(cafe_beans, existing_bean,
                        [drop_count |-> cafe_beans[existing_bean].drop_count + 1,
                         last_dropped_at |-> now])

\* the HTTPException record_cafe_visit raises (lines 165-213), "" when none
record_cafe_visit_error(cafe_id, check_in) ==
    IF cafe_id \notin DOMAIN cafes THEN "CafeNotFound"
    ELSE IF /\ check_in.given /\ check_in.lat # 0 /\ check_in.lng # 0
            /\ calculate_earth_distance(cafes[cafe_id].latitude, cafes[cafe_id].longitude,
                                        check_in.lat, check_in.lng) \div 10 > 50
    THEN "DistanceTooFar"
    ELSE ""

\* POST /cafes/{cafe_id}/visit
record_cafe_visit(u, cafe_id, check_in, single_raises) ==
    /\ record_cafe_visit_error(cafe_id, check_in) = ""
    /\ CanAccept
    /\ cafe_visits' = Append(cafe_visits,
           [cafe_id |-> cafe_id, user_id |-> u, visited_at |-> now])
    /\ cafe_beans' = VisitAutoDrop(u, cafe_id, single_raises)
    /\ resp' = Response("visit", u, cafe_id, FALSE)
    /\ Accepted
    /\ UNCHANGED <<cafes, cafe_checkins, cafe_bean_drops, users, fraud_logs>>

-----------------------------------------------------------------------------
(* Admin surface *)

\* the HTTPException admin_verify_cafe raises, "" when none
admin_verify_error(u, cafe_id) ==
    IF ~require_admin_role(u) THEN "Forbidden"
    ELSE IF cafe_id \notin DOMAIN cafes THEN "CafeNotFound"
    ELSE ""

\* POST /cafes/admin/{cafe_id}/verify
admin_verify_cafe(u, cafe_id) ==
    /\ admin_verify_error(u, cafe_id) = ""
    /\ CanAccept
    /\ cafes' = UpdateRow(cafes, cafe_id,
           [status |-> "verified", admin_verified |-> TRUE, verified_at |-> now])
    /\ resp' = Response("admin_verify", u, cafe_id, FALSE)
    /\ Accepted
    /\ UNCHANGED <<cafe_checkins, cafe_beans, cafe_bean_drops, cafe_visits,
                   users, fraud_logs>>

-----------------------------------------------------------------------------
(* Inputs of the requests *)

\* a street address at latitude 43, a point 12 units (9.8 m) east of it, a
\* point 9 units (10 m) north of it and a point 54 units (60 m) north of it
SiteA == Loc(4300000, -8000000)
SiteE == Loc(4300000, -7999988)
SiteN == Loc(4300009, -8000000)
FarN == Loc(4300054, -8000000)

\* targets of the register requests of Spec (one street address, reported
\* at two points 10 m apart) and of SpecGeo
RegSites == {SiteA}
GeoSites == {SiteA, SiteE, SiteN}
UserLocs == {SiteA, FarN}

\* gaps of the calendar, in days: the next day, or past the 7-day window
DaySkips == {1, 8}

\* an existing cafe id, or the first id not in the table
CafeIds == 1..(Len(cafes) + 1)

-----------------------------------------------------------------------------
(* The in-memory cache of get_trending_cafes (visits.py).  trending holds  *)
(* the dict _trending_cache, the monotonic clock in seconds, the number of *)
(* clears so far, and the last cache call with what it returned.  The data *)
(* cached under a key is named by the key, the time and the number of      *)
(* clears at which it was computed.                                        *)

TRENDING_CACHE_TTL == 300
TrendingCacheMax == 200

\* None
NoData == [key |-> 0, at |-> -1, epoch |-> -1]

EmptyCache == [k \in {} |-> NoData]

EmptyTrending ==
    [cache |-> EmptyCache, clock |-> 0, clears |-> 0, steps |-> 0,
     op |-> "none", key |-> 0, returned |-> NoData]

\* get_trending_cached without the expiry test
get_trending_cached_M(cache, key, t) ==
    IF key \notin DOMAIN cache THEN [data |-> NoData, cache |-> cache]
    ELSE [data |-> cache[key].data, cache |-> cache]

\* _get_trending_cached: the data returned and the dict it leaves
get_trending_cached(cache, key, t) ==
    IF key \notin DOMAIN cache THEN [data |-> NoData, cache |-> cache]
    ELSE IF t - cache[key].cached_at > TRENDING_CACHE_TTL
    THEN [data |-> NoData, cache |-> [k \in DOMAIN cache \ {key} |-> cache[k]]]
    ELSE [data |-> cache[key].data, cache |-> cache]

\* _set_trending_cache: the dict it leaves
set_trending_cache(cache, key, data, t) ==
    LET stale_keys == IF Cardinality(DOMAIN cache) > TrendingCacheMax
                      THEN {k \in DOMAIN cache :
                               t - cache[k].cached_at > TRENDING_CACHE_TTL}
                      ELSE {}
    IN  [k \in (DOMAIN cache \ stale_keys) \cup {key} |->
            IF k = key THEN [data |-> data, cached_at |-> t] ELSE cache[k]]

-----------------------------------------------------------------------------
(* The sequential system: one request at a time *)

EmptyStore ==
    /\ cafes = <<>>
    /\ cafe_checkins = <<>>
    /\ cafe_beans = <<>>
    /\ cafe_bean_drops = <<>>
    /\ cafe_visits = <<>>
    /\ users = [u \in Users |-> [current_streak |-> 0, max_streak |-> 0,
                                 last_drop_date |-> NoTime]]
    /\ fraud_logs = <<>>
    /\ now = 0
    /\ nops = 0
    /\ nadv = 0
    /\ resp = NoResponse
    /\ inflight = <<>>

Register(US, sites) ==
    \E u \in US, site \in sites, user_location \in UserLocs \cup {NoLoc},
       road \in BOOLEAN :
        register_cafe(u, site.lat, site.lng, user_location, road)

DropBean(US) ==
    \E u \in US, cafe_id \in CafeIds, at \in UserLocs :
        drop_bean(u, cafe_id, at.lat, at.lng)

RecordVisit(US) ==
    \E u \in US, cafe_id \in CafeIds, check_in \in UserLocs \cup {NoLoc},
       single_raises \in BOOLEAN :
        record_cafe_visit(u, cafe_id, check_in, single_raises)

AdminVerify ==
    \E u \in Users, cafe_id \in CafeIds : admin_verify_cafe(u, cafe_id)

\* the calendar moves on to the start of a later day
AdvanceDay ==
    /\ nadv < limits.adv
    /\ \E k \in DaySkips : now' = (DateOf(now) + k) * TicksPerDay
    /\ nadv' = nadv + 1
    /\ UNCHANGED <<store, nops, limits, trending, resp, inflight>>

Init == EmptyStore /\ limits = [ops |-> MaxOps, adv |-> 0] /\ trending = EmptyTrending

Next ==
    \/ Register(Users, RegSites)
    \/ DropBean(Users)
    \/ RecordVisit(Users)
    \/ AdminVerify

Spec == Init /\ [][Next]_vars

-----------------------------------------------------------------------------
(* The bean calendar: two users over several days *)

BeanUsers == {"u1", "u2"}

InitBean == EmptyStore /\ limits = [ops |-> MaxBeanOps, adv |-> MaxBeanAdv] /\ trending = EmptyTrending

NextBean ==
    \/ Register(BeanUsers, RegSites)
    \/ DropBean(BeanUsers)
    \/ RecordVisit(BeanUsers)
    \/ AdvanceDay

SpecBean == InitBean /\ [][NextBean]_vars

-----------------------------------------------------------------------------
(* Duplicate detection: register requests at points a few metres apart *)

InitGeo == EmptyStore /\ limits = [ops |-> MaxGeoOps, adv |-> 0] /\ trending = EmptyTrending

NextGeo == Register(Users, GeoSites)

SpecGeo == InitGeo /\ [][NextGeo]_vars

-----------------------------------------------------------------------------
(* Concurrent check-ins: each store round trip of the check-in path of     *)
(* register_cafe is one step; the requests in flight interleave freely.    *)
(* The behaviour starts from the store as u1's registration of a cafe at   *)
(* SiteA leaves it.                                                        *)

InitConc ==
    /\ cafes = <<[latitude |-> SiteA.lat, longitude |-> SiteA.lng, status |-> "pending",
                  verification_count |-> 1, admin_verified |-> FALSE,
                  verified_at |-> NoTime, navigator_id |-> "u1", vanguard_ids |-> <<>>]>>
    /\ cafe_checkins = <<[cafe_id |-> 1, user_id |-> "u1", checkin_order |-> 1,
                          founding_role |-> "navigator",
                          triggered_verification |-> FALSE]>>
    /\ cafe_beans = <<[cafe_id |-> 1, user_id |-> "u1", drop_count |-> 1,
                       growth_level |-> 1, last_latitude |-> SiteA.lat,
                       last_longitude |-> SiteA.lng,
                       first_dropped_at |-> 0, last_dropped_at |-> 0]>>
    /\ cafe_bean_drops = <<[bean_id |-> 1, user_id |-> "u1", cafe_id |-> 1,
                            latitude |-> SiteA.lat, longitude |-> SiteA.lng,
                            dropped_at |-> 0]>>
    /\ cafe_visits = <<>>
    /\ users = [u \in Users |-> [current_streak |-> 0, max_streak |-> 0,
                                 last_drop_date |-> NoTime]]
    /\ fraud_logs = <<>>
    /\ now = 1
    /\ nops = 1
    /\ nadv = 0
    /\ limits = [ops |-> MaxReq + 1, adv |-> 0] /\ trending = EmptyTrending
    /\ resp = Response("register", "u1", 1, FALSE)
    /\ inflight = <<>>

SetPc(r, pc) == inflight' = [inflight EXCEPT ![r].pc = pc]

\* lines 668-728: the request passes its checks and reads the nearby cafe
ConcStart ==
    /\ Len(inflight) < MaxReq
    /\ \E u \in Users, site \in RegSites :
        /\ register_error(u, site.lat, site.lng, NoLoc, TRUE) = ""
        /\ \E cafe_id \in check_nearby_cafes(site.lat, site.lng, 25) :
             inflight' = Append(inflight,
                [user |-> u, pc |-> "check", cafe_id |-> cafe_id,
                 existing_cafe |-> cafes[cafe_id]])
    /\ UNCHANGED <<store, now, nops, nadv, limits, trending, resp>>

\* lines 730-741: the cafe_checkins query and the 409
ConcCheck ==
    \E r \in DOMAIN inflight :
        /\ inflight[r].pc = "check"
        /\ SetPc(r, IF checkin_error(inflight[r].user, inflight[r].cafe_id) = ""
                    THEN "update" ELSE "conflict")
        /\ UNCHANGED <<store, now, nops, nadv, limits, trending, resp>>

\* line 788: the cafes update, built from the row read at the start
ConcUpdate ==
    \E r \in DOMAIN inflight :
        /\ inflight[r].pc = "update"
        /\ cafes' = UpdateRow(cafes, inflight[r].cafe_id,
               CheckinUpdateData(inflight[r].existing_cafe, inflight[r].user, now))
        /\ now' = now + 1
        /\ SetPc(r, "insert")
        /\ UNCHANGED <<cafe_checkins, cafe_beans, cafe_bean_drops, cafe_visits, users,
                       fraud_logs, nops, nadv, limits, trending, resp>>

\* lines 789-799: the cafe_checkins insert and the response
ConcInsert ==
    \E r \in DOMAIN inflight :
        LET checkin_data == CheckinData(inflight[r].existing_cafe, inflight[r].cafe_id,
                                        inflight[r].user)
        IN  /\ inflight[r].pc = "insert"
            /\ cafe_checkins' = Append(cafe_checkins, checkin_data)
            /\ resp' = Response("register", inflight[r].user, inflight[r].cafe_id,
                                checkin_data.triggered_verification)
            /\ nops' = nops + 1
            /\ SetPc(r, "done")
            /\ UNCHANGED <<cafes, cafe_beans, cafe_bean_drops, cafe_visits, users,
                           fraud_logs, now, nadv, limits, trending>>

NextConc == ConcStart \/ ConcCheck \/ ConcUpdate \/ ConcInsert

SpecConc == InitConc /\ [][NextConc]_vars

-----------------------------------------------------------------------------
(* StreakTracker on given drop histories: step 8 of drop_bean *)

\* drop dates of the histories range over 1..MaxStreakDay, followed in the
\* long histories by one drop a day for about DropsLimit days
MaxStreakDay == 9
LongRuns == {DropsLimit - 1, DropsLimit, DropsLimit + 1}

HistoryDates(S, L) == S \cup {MaxStreakDay + k : k \in 1..L}

DropEvent(bean_id, u, cafe_id, t) ==
    [bean_id |-> bean_id, user_id |-> u, cafe_id |-> cafe_id,
     latitude |-> cafes[cafe_id].latitude, longitude |-> cafes[cafe_id].longitude,
     dropped_at |-> t]

\* u1's drops in time order: one at cafe 1 on every date and, with `twice`,
\* a second one at cafe 2 on the same date
EventsOn(dates, twice) ==
    LET sd == SortedDesc(dates)
        n == Len(sd)
        DateAt(k) == sd[n + 1 - k]
    IN  IF twice
        THEN [i \in 1..(2 * n) |->
                 DropEvent(1 + ((i + 1) % 2), "u1", 1 + ((i + 1) % 2),
                           DateAt((i + 1) \div 2) * TicksPerDay + ((i + 1) % 2))]
        ELSE [i \in 1..n |-> DropEvent(1, "u1", 1, DateAt(i) * TicksPerDay)]

BeanRow(cafe_id, u, drop_count, first, last) ==
    [cafe_id |-> cafe_id, user_id |-> u, drop_count |-> drop_count,
     growth_level |-> calculate_growth_level(drop_count),
     last_latitude |-> cafes[cafe_id].latitude,
     last_longitude |-> cafes[cafe_id].longitude,
     first_dropped_at |-> first, last_dropped_at |-> last]

CafeRow(site, u) ==
    [latitude |-> site.lat, longitude |-> site.lng, status |-> "pending",
     verification_count |-> 1, admin_verified |-> FALSE,
     verified_at |-> NoTime, navigator_id |-> u, vanguard_ids |-> <<>>]

\* the store when drop_bean has inserted u1's latest drop event and is about
\* to call calculate_user_streak, on the day of that drop or (late = 1) just
\* after midnight
InitStreak ==
    \E S \in SUBSET (1..MaxStreakDay), L \in {0} \cup LongRuns,
       twice \in BOOLEAN, late \in {0, 1} :
        LET dates == HistoryDates(S, L)
            first == (CHOOSE d \in dates : \A e \in dates : d <= e) * TicksPerDay
            last == (CHOOSE d \in dates : \A e \in dates : d >= e) * TicksPerDay
        IN  /\ S # {}
            /\ L > 0 => S \subseteq 1..(MaxStreakDay \div 2)
            /\ cafes = <<CafeRow(SiteA, "u1"), CafeRow(FarN, "u2")>>
            /\ cafe_checkins = <<[cafe_id |-> 1, user_id |-> "u1", checkin_order |-> 1,
                                  founding_role |-> "navigator",
                                  triggered_verification |-> FALSE],
                                 [cafe_id |-> 2, user_id |-> "u2", checkin_order |-> 1,
                                  founding_role |-> "navigator",
                                  triggered_verification |-> FALSE]>>
            /\ cafe_bean_drops = <<DropEvent(2, "u2", 2, 0)>> \o EventsOn(dates, twice)
            /\ cafe_beans =
                  <<BeanRow(1, "u1", Cardinality(dates), first, last),
                    BeanRow(2, "u2", 1, 0, 0)>>
                  \o (IF twice
                      THEN <<BeanRow(2, "u1", Cardinality(dates), first + 1, last + 1)>>
                      ELSE <<>>)
            /\ cafe_visits = <<>>
            /\ users = [u \in Users |-> [current_streak |-> 0, max_streak |-> 0,
                                         last_drop_date |-> NoTime]]
            /\ fraud_logs = <<>>
            /\ now = last + late * TicksPerDay + 2
            /\ nops = 0
            /\ nadv = 0
            /\ limits = [ops |-> 1, adv |-> 0] /\ trending = EmptyTrending
            /\ resp = NoResponse
            /\ inflight = <<>>

\* step 8 of drop_bean: the streak recompute and its users update
StreakRecompute ==
    /\ nops < limits.ops
    /\ users' = [users EXCEPT !["u1"] = calculate_user_streak(cafe_bean_drops, "u1")]
    /\ nops' = nops + 1
    /\ resp' = Response("drop_bean", "u1", cafe_bean_drops[Len(cafe_bean_drops)].cafe_id, FALSE)
    /\ UNCHANGED <<cafes, cafe_checkins, cafe_beans, cafe_bean_drops, cafe_visits,
                   fraud_logs, now, nadv, limits, trending, inflight>>

NextStreak == StreakRecompute

SpecStreak == InitStreak /\ [][NextStreak]_vars

-----------------------------------------------------------------------------
(* Requests that fail with a store error between two of their writes *)

MaxFailOps == 4
MaxFail == 1

\* a request that ended in a 500 is remembered with what it had read
Failed(u, kind, cafe_id) ==
    /\ Len(inflight) < MaxFail
    /\ inflight' = Append(inflight,
           [user |-> u, pc |-> kind, cafe_id |-> cafe_id,
            existing_cafe |-> cafes[cafe_id]])
    /\ now' = now + 1
    /\ nops' = nops + 1
    /\ UNCHANGED <<nadv, limits, trending, resp>>

\* register_cafe, existing cafe: the cafes update (line 788) is applied, the
\* cafe_checkins insert (line 789) raises and the handler answers 500
RegisterCheckinFails ==
    \E u \in Users, site \in RegSites :
        /\ register_error(u, site.lat, site.lng, NoLoc, TRUE) = ""
        /\ \E cafe_id \in check_nearby_cafes(site.lat, site.lng, 25) :
              /\ checkin_error(u, cafe_id) = ""
              /\ CanAccept
              /\ cafes' = UpdateRow(cafes, cafe_id,
                              CheckinUpdateData(cafes[cafe_id], u, now))
              /\ Failed(u, "failed_checkin", cafe_id)
        /\ UNCHANGED <<cafe_checkins, cafe_beans, cafe_bean_drops, cafe_visits,
                       users, fraud_logs>>

\* drop_bean: the bean write (lines 1525-1558) is applied, the
\* cafe_bean_drops insert (line 1561) raises and the handler answers 500
DropFails ==
    \E u \in Users, cafe_id \in DOMAIN cafes, at \in UserLocs :
        \E existing \in ExistingBean(cafe_id, u) :
            /\ drop_bean_error(u, cafe_id, at.lat, at.lng, existing) = ""
            /\ CanAccept
            /\ \E logged \in FraudCheck(u, at.lat, at.lng) :
                  fraud_logs' = fraud_logs \o logged
            /\ cafe_beans' = BeanWrite(u, cafe_id, at.lat, at.lng, existing)
            /\ Failed(u, "failed_drop", cafe_id)
            /\ UNCHANGED <<cafes, cafe_checkins, cafe_bean_drops, cafe_visits, users>>

InitFail == EmptyStore /\ limits = [ops |-> MaxFailOps, adv |-> 0] /\ trending = EmptyTrending

NextFail ==
    \/ Register(Users, RegSites)
    \/ DropBean(Users)
    \/ RegisterCheckinFails
    \/ DropFails

SpecFail == InitFail /\ [][NextFail]_vars

-----------------------------------------------------------------------------
(* Drops of a user whose previous drop was far away a short time ago *)

MaxFraudOps == 2

\* a point `deg` whole degrees north of SiteA, on its meridian
North(deg) == Loc(SiteA.lat + deg * 100000, SiteA.lng)

\* cafe 1 at SiteA and cafes 2..5 at 111 km, 445 km, 1112 km and 3336 km
FraudSites == <<SiteA, North(1), North(4), North(10), North(30)>>

\* On day 0 u1 has registered the five cafes.  u2 may have dropped a bean at
\* cafe 1 on day 1 or early on day 2 (own).  On day 2 u2 has dropped a bean
\* at cafe k, 6 or 3 hours before now: k and that time are the user's
\* previous drop location and time.
InitFraud ==
    \E k \in 2..Len(FraudSites), ago \in {1, 2}, own \in {"none", "old", "today"} :
        LET day2 == 2 * TicksPerDay
            T == day2 + 3
            ownT == IF own = "old" THEN TicksPerDay ELSE day2
            Seed(c) == [cafe_id |-> c, user_id |-> "u1", drop_count |-> 1,
                        growth_level |-> 1, last_latitude |-> FraudSites[c].lat,
                        last_longitude |-> FraudSites[c].lng,
                        first_dropped_at |-> c - 1, last_dropped_at |-> c - 1]
            Mine(c, t) == [cafe_id |-> c, user_id |-> "u2", drop_count |-> 1,
                           growth_level |-> 1, last_latitude |-> FraudSites[c].lat,
                           last_longitude |-> FraudSites[c].lng,
                           first_dropped_at |-> t, last_dropped_at |-> t]
            Event(b, u, c, t) == [bean_id |-> b, user_id |-> u, cafe_id |-> c,
                                  latitude |-> FraudSites[c].lat,
                                  longitude |-> FraudSites[c].lng, dropped_at |-> t]
            n == Len(FraudSites)
        IN  /\ cafes = [c \in 1..n |-> CafeRow(FraudSites[c], "u1")]
            /\ cafe_checkins = [c \in 1..n |->
                  [cafe_id |-> c, user_id |-> "u1", checkin_order |-> 1,
                   founding_role |-> "navigator", triggered_verification |-> FALSE]]
            /\ cafe_beans = [c \in 1..n |-> Seed(c)]
                  \o (IF own = "none" THEN <<>> ELSE <<Mine(1, ownT)>>)
                  \o <<Mine(k, T - ago)>>
            /\ cafe_bean_drops = [c \in 1..n |-> Event(c, "u1", c, c - 1)]
                  \o (IF own = "none" THEN <<>> ELSE <<Event(n + 1, "u2", 1, ownT)>>)
                  \o <<Event(IF own = "none" THEN n + 1 ELSE n + 2, "u2", k, T - ago)>>
            /\ cafe_visits = <<>>
            /\ users = [u \in Users |->
                  IF u = "u2"
                  THEN [current_streak |-> IF own = "old" THEN 2 ELSE 1,
                        max_streak |-> IF own = "old" THEN 2 ELSE 1,
                        last_drop_date |-> 2]
                  ELSE [current_streak |-> 0, max_streak |-> 0, last_drop_date |-> NoTime]]
            /\ fraud_logs = <<>>
            /\ now = T
            /\ nops = 0
            /\ nadv = 0
            /\ limits = [ops |-> MaxFraudOps, adv |-> 0] /\ trending = EmptyTrending
            /\ resp = NoResponse
            /\ inflight = <<>>

NextFraud == DropBean(Users)

SpecFraud == InitFraud /\ [][NextFraud]_vars

-----------------------------------------------------------------------------
(* Registrations at points of one street, some within 25 m of each other   *)
(* and some not                                                            *)

StreetSites == {SiteA, SiteN, FarN}

InitStreet == EmptyStore /\ limits = [ops |-> MaxGeoOps, adv |-> 0] /\ trending = EmptyTrending

NextStreet == Register(Users, StreetSites)

SpecStreet == InitStreet /\ [][NextStreet]_vars

-----------------------------------------------------------------------------
(* Drops from points around the 50 m limit of one cafe *)

MaxGateOps == 4

\* points north of SiteA: 30.0 m, 48.9 m, 50.0 m and 60.0 m away by
\* calculate_earth_distance
Near30 == Loc(4300027, -8000000)
Near49 == Loc(4300044, -8000000)
At50 == Loc(4300045, -8000000)
GateLocs == {SiteA, Near30, Near49, At50, FarN}

GateDrop ==
    \E u \in Users, cafe_id \in CafeIds, at \in GateLocs :
        drop_bean(u, cafe_id, at.lat, at.lng)

InitGate == EmptyStore /\ limits = [ops |-> MaxGateOps, adv |-> 0] /\ trending = EmptyTrending

NextGate == Register(Users, RegSites) \/ GateDrop

SpecGate == InitGate /\ [][NextGate]_vars

-----------------------------------------------------------------------------
(* BeanProgress on given drop counts: one more drop on a bean of any size *)

MaxDropCount == 120

\* u1's bean at cafe 1 after one drop a day on the days 1..n, on the
\* morning of day n + 1
InitGrowth ==
    \E n \in 1..MaxDropCount :
        /\ cafes = <<CafeRow(SiteA, "u1")>>
        /\ cafe_checkins = <<[cafe_id |-> 1, user_id |-> "u1", checkin_order |-> 1,
                              founding_role |-> "navigator",
                              triggered_verification |-> FALSE]>>
        /\ cafe_bean_drops = EventsOn(1..n, FALSE)
        /\ cafe_beans = <<BeanRow(1, "u1", n, TicksPerDay, n * TicksPerDay)>>
        /\ cafe_visits = <<>>
        /\ users = [u \in Users |->
                       IF u = "u1"
                       THEN [current_streak |-> n, max_streak |-> n,
                             last_drop_date |-> n]
                       ELSE [current_streak |-> 0, max_streak |-> 0,
                             last_drop_date |-> NoTime]]
        /\ fraud_logs = <<>>
        /\ now = (n + 1) * TicksPerDay
        /\ nops = 0
        /\ nadv = 0
        /\ limits = [ops |-> 1, adv |-> 0] /\ trending = EmptyTrending
        /\ resp = NoResponse
        /\ inflight = <<>>

NextGrowth == DropBean({"u1"})

SpecGrowth == InitGrowth /\ [][NextGrowth]_vars

-----------------------------------------------------------------------------
(* Cafes on the prime meridian: a previous drop whose longitude is 0.0 *)

MaxMeridianOps == 4

SiteZ == Loc(6000000, 0)
SiteY == Loc(6000000, 200)
MeridianSites == {SiteZ, SiteY}

MeridianRegister ==
    \E u \in Users, site \in MeridianSites :
        register_cafe(u, site.lat, site.lng, NoLoc, TRUE)

MeridianDrop ==
    \E u \in Users, cafe_id \in CafeIds, at \in MeridianSites :
        drop_bean(u, cafe_id, at.lat, at.lng)

InitMeridian == EmptyStore /\ limits = [ops |-> MaxMeridianOps, adv |-> 0] /\ trending = EmptyTrending

NextMeridian == MeridianRegister \/ MeridianDrop

SpecMeridian == InitMeridian /\ [][NextMeridian]_vars

-----------------------------------------------------------------------------
(* Slugs of concurrent registrations: the new-cafe path of register_cafe,  *)
(* each lookup of generate_unique_slug one step, the cafe insert with the  *)
(* inserts that follow it another.  Names and slugs are sequences of       *)
(* characters.                                                             *)

MaxSlugReq == 3

SlugNames == {<<"A">>, <<"a", " ">>, <<"a", "-", "1">>, <<" ", "!">>}
SlugSites == {SiteA, FarN}
SlugUsers == {"u1", "u2"}

\* str.lower() on the characters in use
Lower(c) == CASE c = "A" -> "a" [] OTHER -> c

\* the characters [a-z0-9] in use
AlNum == {"a", "c", "f", "e", "0", "1", "2", "3", "4", "5", "6", "7", "8", "9"}

\* slugify: lower case, every run of other characters one "-", no "-" at
\* either end, "cafe" when nothing is left
slugify(name) ==
    LET m == [k \in DOMAIN name |->
                 IF Lower(name[k]) \in AlNum THEN Lower(name[k]) ELSE "-"]
        Kept(k) == \/ m[k] # "-"
                   \/ /\ \E j \in 1..(k - 1) : m[j] # "-"
                      /\ k < Len(m) /\ m[k + 1] # "-"
        F[k \in 0..Len(m)] ==
            IF k = 0 THEN <<>>
            ELSE IF Kept(k) THEN Append(F[k - 1], m[k]) ELSE F[k - 1]
        slug == F[Len(m)]
    IN  IF slug = <<>> THEN <<"c", "a", "f", "e">> ELSE slug

\* str(counter) of the f-string, for counters below 100
CounterStr(counter) ==
    LET Digit(d) == CASE d = 0 -> "0" [] d = 1 -> "1" [] d = 2 -> "2" [] d = 3 -> "3"
                      [] d = 4 -> "4" [] d = 5 -> "5" [] d = 6 -> "6" [] d = 7 -> "7"
                      [] d = 8 -> "8" [] OTHER -> "9"
    IN  IF counter < 10 THEN <<Digit(counter)>>
        ELSE <<Digit(counter \div 10), Digit(counter % 10)>>

\* a cafes row with its slug column
WithSlug(row, slug) ==
    [f \in DOMAIN row \cup {"slug"} |-> IF f = "slug" THEN slug ELSE row[f]]

\* lines 668-805: the request passes its checks, finds no cafe within 25 m
\* and enters generate_unique_slug
SlugStart ==
    /\ Len(inflight) < MaxSlugReq
    /\ \E u \in SlugUsers, site \in SlugSites, name \in SlugNames :
        /\ register_error(u, site.lat, site.lng, NoLoc, TRUE) = ""
        /\ check_nearby_cafes(site.lat, site.lng, 25) = {}
        /\ inflight' = Append(inflight,
              [user |-> u, pc |-> "lookup", site |-> site,
               base_slug |-> slugify(name), slug_candidate |-> slugify(name),
               counter |-> 1])
    /\ UNCHANGED <<store, now, nops, nadv, limits, trending, resp>>

\* one turn of the loop of generate_unique_slug (register passes no
\* exclude_id)
SlugLookup ==
    \E r \in DOMAIN inflight :
        LET req == inflight[r]
            rows == {i \in DOMAIN cafes : cafes[i].slug = req.slug_candidate}
        IN  /\ req.pc = "lookup"
            /\ inflight' =
                  IF rows = {}
                  THEN [inflight EXCEPT ![r].pc = "insert"]
                  ELSE [inflight EXCEPT
                          ![r].slug_candidate =
                              req.base_slug \o <<"-">> \o CounterStr(req.counter),
                          ![r].counter = req.counter + 1]
            /\ UNCHANGED <<store, now, nops, nadv, limits, trending, resp>>

\* lines 807-879: the cafes insert with the slug found, then the check-in,
\* the seed bean and its drop event
SlugInsert ==
    \E r \in DOMAIN inflight :
        LET req == inflight[r]
            cafe_id == Len(cafes) + 1
            bean_id == Len(cafe_beans) + 1
        IN  /\ req.pc = "insert"
            /\ cafes' = Append(cafes,
                  WithSlug(CafeRow(req.site, req.user), req.slug_candidate))
            /\ cafe_checkins' = Append(cafe_checkins,
                  [cafe_id |-> cafe_id, user_id |-> req.user, checkin_order |-> 1,
                   founding_role |-> "navigator", triggered_verification |-> FALSE])
            /\ cafe_beans' = Append(cafe_beans,
                  [cafe_id |-> cafe_id, user_id |-> req.user, drop_count |-> 1,
                   growth_level |-> 1, last_latitude |-> req.site.lat,
                   last_longitude |-> req.site.lng,
                   first_dropped_at |-> now, last_dropped_at |-> now])
            /\ cafe_bean_drops' = Append(cafe_bean_drops,
                  [bean_id |-> bean_id, user_id |-> req.user, cafe_id |-> cafe_id,
                   latitude |-> req.site.lat, longitude |-> req.site.lng,
                   dropped_at |-> now])
            /\ resp' = Response("register", req.user, cafe_id, FALSE)
            /\ now' = now + 1
            /\ nops' = nops + 1
            /\ SetPc(r, "done")
            /\ UNCHANGED <<cafe_visits, users, fraud_logs, nadv, limits, trending>>

InitSlug == EmptyStore /\ limits = [ops |-> MaxSlugReq, adv |-> 0] /\ trending = EmptyTrending

NextSlug == SlugStart \/ SlugLookup \/ SlugInsert

SpecSlug == InitSlug /\ [][NextSlug]_vars

-----------------------------------------------------------------------------
(* The trending cache under any sequence of lookups, stores, clears and    *)
(* clock advances, starting from a dict that earlier requests have filled  *)
(* to around its eviction size                                             *)

MaxCacheSteps == 4

\* the keys of the calls, and the first key of the entries already cached
CacheKeys == {1, 2, 101}
FirstCached == 101
CacheFills == {0, TrendingCacheMax - 1, TrendingCacheMax, TrendingCacheMax + 1}
ClockSteps == {1, TRENDING_CACHE_TTL}

TrendingStep(op, key, cache, returned) ==
    /\ trending.steps < MaxCacheSteps
    /\ trending' = [trending EXCEPT !.cache = cache, !.op = op, !.key = key,
                                    !.returned = returned,
                                    !.steps = trending.steps + 1]
    /\ UNCHANGED <<store, now, nops, nadv, limits, resp, inflight>>

\* get_trending_cafes, lines 609-613: the cache lookup
TrendingGet ==
    \E key \in CacheKeys :
        LET r == get_trending_cached(trending.cache, key, trending.clock)
        IN  TrendingStep("get", key, r.cache, r.data)

\* get_trending_cafes, lines 649 and 699: the result just computed is stored
TrendingSet ==
    \E key \in CacheKeys :
        TrendingStep("set", key,
            set_trending_cache(trending.cache, key,
                [key |-> key, at |-> trending.clock, epoch |-> trending.clears],
                trending.clock),
            NoData)

\* backfill_cafe_images, line 923: _trending_cache.clear()
TrendingClear ==
    /\ trending.steps < MaxCacheSteps
    /\ trending' = [trending EXCEPT !.cache = EmptyCache, !.op = "clear", !.key = 0,
                                    !.returned = NoData,
                                    !.clears = trending.clears + 1,
                                    !.steps = trending.steps + 1]
    /\ UNCHANGED <<store, now, nops, nadv, limits, resp, inflight>>

\* time.monotonic() moves on
ClockAdvance ==
    /\ trending.steps < MaxCacheSteps
    /\ \E d \in ClockSteps :
          trending' = [trending EXCEPT !.clock = trending.clock + d, !.op = "tick",
                                      !.key = 0, !.returned = NoData,
                                      !.steps = trending.steps + 1]
    /\ UNCHANGED <<store, now, nops, nadv, limits, resp, inflight>>

InitTrending ==
    /\ EmptyStore
    /\ limits = [ops |-> 0, adv |-> 0]
    /\ \E n \in CacheFills :
          trending = [EmptyTrending EXCEPT !.cache =
              [k \in FirstCached..(FirstCached + n - 1) |->
                  [data |-> [key |-> k, at |-> 0, epoch |-> 0], cached_at |-> 0]]]

NextTrending == TrendingGet \/ TrendingSet \/ TrendingClear \/ ClockAdvance

SpecTrending == InitTrending /\ [][NextTrending]_vars

-----------------------------------------------------------------------------
(* Reading the streak: GET /users/me/streak between drops *)

MaxReadOps == 3

\* days after which get_my_streak reports the streak as inactive
StreakWindowDays == 7

StreakResponse(u, row, streak_active) ==
    [op |-> "get_streak", user |-> u, cafe_id |-> 0, triggered_verification |-> FALSE,
     current_streak |-> row.current_streak, max_streak |-> row.max_streak,
     last_drop_date |-> row.last_drop_date, streak_active |-> streak_active]

\* get_my_streak that writes the lapsed streak back as 0
get_my_streak_M(u) ==
    LET data == users[u]
        streak_active == /\ data.last_drop_date # NoTime
                         /\ DateOf(now) - data.last_drop_date <= StreakWindowDays
    IN  /\ resp' = StreakResponse(u, data, streak_active)
        /\ users' = IF streak_active THEN users
                    ELSE [users EXCEPT ![u].current_streak = 0]
        /\ UNCHANGED <<cafes, cafe_checkins, cafe_beans, cafe_bean_drops, cafe_visits,
                       fraud_logs, now, nops, nadv, limits, trending, inflight>>

\* GET /users/me/streak (users.py 901-964): the stored row and whether the
\* last drop date is at most 7 days back
get_my_streak(u) ==
    LET data == users[u]
        streak_active == /\ data.last_drop_date # NoTime
                         /\ DateOf(now) - data.last_drop_date <= StreakWindowDays
    IN  /\ resp' = StreakResponse(u, data, streak_active)
        /\ UNCHANGED <<store, now, nops, nadv, limits, trending, inflight>>

GetMyStreak == \E u \in BeanUsers : get_my_streak(u)

InitRead == EmptyStore /\ limits = [ops |-> MaxReadOps, adv |-> MaxBeanAdv] /\ trending = EmptyTrending

NextRead ==
    \/ Register(BeanUsers, RegSites)
    \/ DropBean(BeanUsers)
    \/ AdvanceDay
    \/ GetMyStreak

SpecRead == InitRead /\ [][NextRead]_vars

-----------------------------------------------------------------------------
(* Callers of every role: register requests of owners, an admin, a user,   *)
(* a guest and a caller without a profile                                  *)

Callers == Users \cup {"u4", "u5", "u6"}

InitRoles == EmptyStore /\ limits = [ops |-> MaxGeoOps, adv |-> 0] /\ trending = EmptyTrending

NextRoles == Register(Callers, StreetSites)

SpecRoles == InitRoles /\ [][NextRoles]_vars

-----------------------------------------------------------------------------
(* Properties *)

\* users holding a bean at the cafe
BeanHolders(cafe_id) ==
    {cafe_beans[i].user_id : i \in {j \in DOMAIN cafe_beans : cafe_beans[j].cafe_id = cafe_id}}

\* C1: a cafe is verified if and only if its verification_count has reached
\* 3 or three distinct users hold a bean at it: no cafe is verified with
\* fewer than 3 contributors on both paths, and no cafe stays pending once
\* one of the paths has 3.
C1_VerifiedIffThreeContributors ==
    \A c \in DOMAIN cafes :
        cafes[c].status = "verified"
            <=> (cafes[c].verification_count >= 3 \/ Cardinality(BeanHolders(c)) >= 3)

\* C2: once a cafe is verified, no accepted request makes it pending again.
C2_VerifiedAbsorbing ==
    [][\A c \in DOMAIN cafes :
          cafes[c].status = "verified" => cafes'[c].status = "verified"]_vars

\* a verified cafe on which a later check-in has been accepted
C2_Witness ==
    \E c \in DOMAIN cafes :
        /\ cafes[c].status = "verified"
        /\ resp.op = "register" /\ resp.cafe_id = c
        /\ cafes[c].verified_at < now - 1

\* C3: the pending -> verified transition happens once; a request reports
\* triggered_verification = true only when it moved the cafe from pending
\* to verified, never on a cafe that was verified already.
C3_TriggeredOnlyOnTransition ==
    [][\A c \in DOMAIN cafes :
          (nops' = nops + 1 /\ resp'.cafe_id = c /\ resp'.triggered_verification)
              => (cafes[c].status = "pending" /\ cafes'[c].status = "verified")]_vars

\* the users of a cafe's founding crew
CrewUsers(cafe) ==
    {cafe.navigator_id} \cup {cafe.vanguard_ids[k].user_id : k \in DOMAIN cafe.vanguard_ids}

\* C4: every cafe has one navigator and at most two vanguards, and no user
\* appears twice in its founding crew.
C4_FoundingCrewShape ==
    \A c \in DOMAIN cafes :
        /\ cafes[c].navigator_id \in Users
        /\ Len(cafes[c].vanguard_ids) <= 2
        /\ Cardinality(CrewUsers(cafes[c])) = 1 + Len(cafes[c].vanguard_ids)

\* C5: once a cafe is verified, no register or drop-bean request changes its
\* navigator_id or vanguard_ids.
C5_CrewFrozenOnceVerified ==
    [][\A c \in DOMAIN cafes :
          cafes[c].status = "verified"
              => /\ cafes'[c].navigator_id = cafes[c].navigator_id
                 /\ cafes'[c].vanguard_ids = cafes[c].vanguard_ids]_vars

\* C6: when a registration and two check-ins by further users are the only
\* requests so far, the cafe is verified with verification_count 3 and its
\* vanguard_ids hold the second and the third contributor, as vanguard_2
\* and vanguard_3.
C6_ThreeCheckinsTwoVanguards ==
    (nops = 3 /\ Len(cafes) = 1 /\ Len(cafe_checkins) = 3)
        => /\ cafes[1].status = "verified"
           /\ cafes[1].verification_count = 3
           /\ Len(cafes[1].vanguard_ids) = 2
           /\ \A k \in 1..2 :
                /\ cafes[1].vanguard_ids[k].user_id = cafe_checkins[k + 1].user_id
                /\ cafes[1].vanguard_ids[k].role = k + 1

\* C7: register requests whose targets are less than 25 m apart end on one
\* cafe: no two cafe rows lie within 25 m of each other.
C7_OneCafeWithin25m ==
    \A i, j \in DOMAIN cafes :
        i # j => calculate_earth_distance(cafes[i].latitude, cafes[i].longitude,
                                          cafes[j].latitude, cafes[j].longitude)
                    >= Dm(25)

\* C8: there is at most one cafe_checkins row per (cafe, user), also when
\* the steps of two register requests of one user interleave.
C8_OneCheckinPerCafeUser ==
    \A i, j \in DOMAIN cafe_checkins :
        (/\ cafe_checkins[i].cafe_id = cafe_checkins[j].cafe_id
         /\ cafe_checkins[i].user_id = cafe_checkins[j].user_id) => i = j

\* a drop of (user, cafe) was accepted on the current day: by drop_bean or
\* the registration's seed bean (a drop event of today), or around a visit
\* logged today
AcceptedDropToday(u, cafe_id) ==
    \/ \E k \in DOMAIN cafe_bean_drops :
          /\ cafe_bean_drops[k].user_id = u /\ cafe_bean_drops[k].cafe_id = cafe_id
          /\ DateOf(cafe_bean_drops[k].dropped_at) = DateOf(now)
    \/ /\ BeansOf(cafe_beans, cafe_id, u) # {}
       /\ \E k \in DOMAIN cafe_visits :
             /\ cafe_visits[k].user_id = u /\ cafe_visits[k].cafe_id = cafe_id
             /\ DateOf(cafe_visits[k].visited_at) = DateOf(now)

\* a drop_bean call of the user, standing at the cafe, fails with 409
DropFailsToday(u, cafe_id) ==
    \A existing \in ExistingBean(cafe_id, u) :
        drop_bean_error(u, cafe_id, cafes[cafe_id].latitude, cafes[cafe_id].longitude,
                        existing) = "AlreadyDroppedToday"

C9_SecondDropRejected ==
    \A u \in Users, c \in DOMAIN cafes :
        AcceptedDropToday(u, c) => DropFailsToday(u, c)

C9_OneIncrement ==
    /\ \A i \in DOMAIN cafe_beans :
          cafe_beans'[i].drop_count # cafe_beans[i].drop_count
              => /\ cafe_beans'[i].drop_count = cafe_beans[i].drop_count + 1
                 /\ DateOf(cafe_beans[i].last_dropped_at) < DateOf(now)
                 /\ DateOf(cafe_beans'[i].last_dropped_at) = DateOf(now)
    /\ \A i \in DOMAIN cafe_beans' \ DOMAIN cafe_beans :
          /\ cafe_beans'[i].drop_count = 1
          /\ DateOf(cafe_beans'[i].last_dropped_at) = DateOf(now)
          /\ BeansOf(cafe_beans, cafe_beans'[i].cafe_id, cafe_beans'[i].user_id) = {}

\* C9: per (user, cafe) and UTC day the drop count grows by one at most, on
\* the first accepted drop of the day; from then on, whether that drop came
\* from drop_bean, the registration's seed bean or a visit log, drop_bean
\* fails with 409 AlreadyDroppedToday for the rest of the day.
C9_OneDropPerDay == [][C9_OneIncrement /\ C9_SecondDropRejected']_vars

\* a drop_bean accepted on a later day has raised the count, and a second
\* call on the same day is rejected
C9_Witness ==
    \E i \in DOMAIN cafe_beans :
        /\ resp.op = "drop_bean"
        /\ resp.user = cafe_beans[i].user_id /\ resp.cafe_id = cafe_beans[i].cafe_id
        /\ cafe_beans[i].drop_count >= 2
        /\ DropFailsToday(cafe_beans[i].user_id, cafe_beans[i].cafe_id)

\* C10: every stored bean row has growth_level =
\* calculate_growth_level(drop_count).
C10_GrowthLevelInSync ==
    \A i \in DOMAIN cafe_beans :
        cafe_beans[i].growth_level = calculate_growth_level(cafe_beans[i].drop_count)

\* the drop events stored for (user, cafe)
DropEventsOf(u, cafe_id) ==
    {k \in DOMAIN cafe_bean_drops :
        cafe_bean_drops[k].user_id = u /\ cafe_bean_drops[k].cafe_id = cafe_id}

\* C11: the number of drop events of a (user, cafe) pair equals the
\* drop_count of the pair's bean (0 when the pair has no bean).
C11_EventsEqualDropCount ==
    \A u \in Users, c \in DOMAIN cafes :
        /\ \A i \in BeansOf(cafe_beans, c, u) :
              Cardinality(DropEventsOf(u, c)) = cafe_beans[i].drop_count
        /\ BeansOf(cafe_beans, c, u) = {} => DropEventsOf(u, c) = {}

LeadingRun(D) ==
    {d \in D : \A e \in D : (e >= d /\ \E x \in D : x > e)
                               => ((e + 1)..(e + 7)) \cap D # {}}

\* the UTC dates of the drop events `rows` of cafe_bean_drops, with today
DatesWithToday(rows) ==
    {DateOf(cafe_bean_drops[i].dropped_at) : i \in rows} \cup {DateOf(now)}

C14_NearbyIsCircle ==
    \A site \in GeoSites :
        check_nearby_cafes(site.lat, site.lng, 25) =
            {c \in DOMAIN cafes :
                calculate_earth_distance(site.lat, site.lng,
                    cafes[c].latitude, cafes[c].longitude) < Dm(25)}

\* C15: a cafe's stored verification_count never decreases, under any
\* interleaving of the statements of concurrent register requests.
C15_CountNeverDecreases ==
    [][\A c \in DOMAIN cafes :
          cafes'[c].verification_count >= cafes[c].verification_count]_vars

\* the requests that have completed
DoneRequests == {r \in DOMAIN inflight : inflight[r].pc = "done"}

\* the users with a check-in row at the cafe
CheckedInUsers(cafe_id) ==
    {cafe_checkins[i].user_id :
        i \in {j \in DOMAIN cafe_checkins : cafe_checkins[j].cafe_id = cafe_id}}

\* C16: two register requests on one cafe that read the same
\* verification_count k both store a check-in with checkin_order k + 1, and
\* both report triggered_verification = true when k = 2; when two requests
\* of distinct users that both read count 1 are the only ones, the cafe
\* ends with three checked-in users, verification_count 2 and status
\* pending.
C16_LostUpdate ==
    \A r1, r2 \in DoneRequests :
        (/\ r1 # r2
         /\ inflight[r1].cafe_id = inflight[r2].cafe_id
         /\ inflight[r1].existing_cafe.verification_count
                = inflight[r2].existing_cafe.verification_count)
        => LET c == inflight[r1].cafe_id
               k == inflight[r1].existing_cafe.verification_count
           IN  /\ \A r \in {r1, r2} : \E i \in DOMAIN cafe_checkins :
                     /\ cafe_checkins[i].cafe_id = c
                     /\ cafe_checkins[i].user_id = inflight[r].user
                     /\ cafe_checkins[i].checkin_order = k + 1
                     /\ cafe_checkins[i].triggered_verification = (k = 2)
               /\ Cardinality({i \in DOMAIN cafe_checkins :
                                  /\ cafe_checkins[i].cafe_id = c
                                  /\ cafe_checkins[i].checkin_order = k + 1}) >= 2
               /\ (k = 1 /\ inflight[r1].user # inflight[r2].user /\ Len(inflight) = 2)
                     => /\ cafes[c].verification_count = 2
                        /\ cafes[c].status = "pending"
                        /\ Cardinality(CheckedInUsers(c)) = 3

\* the lost update: two requests of distinct users have both read count 1
\* and both completed
C16_Witness ==
    /\ Len(inflight) = 2
    /\ DoneRequests = {1, 2}
    /\ inflight[1].user # inflight[2].user
    /\ inflight[1].existing_cafe.verification_count = 1
    /\ inflight[2].existing_cafe.verification_count = 1
    /\ Cardinality({i \in DOMAIN cafe_checkins : cafe_checkins[i].checkin_order = 2}) = 2
    /\ cafes[1].status = "pending"

\* C17: re-issuing a request that failed with a 500 after some of its
\* writes leaves the state of one successful execution: once the repeated
\* check-in has stored its row, the cafe's verification_count counts every
\* checked-in user once; and when the repeated drop_bean is answered 409,
\* the bean's drop_count is matched by the user's drop events at the cafe.
C17_RetrySafe ==
    \A r \in DOMAIN inflight :
        LET u == inflight[r].user
            c == inflight[r].cafe_id
        IN  /\ (inflight[r].pc = "failed_checkin" /\ HasCheckin(c, u))
                  => cafes[c].verification_count = Cardinality(CheckedInUsers(c))
            /\ inflight[r].pc = "failed_drop"
                  => \A existing \in ExistingBean(c, u) :
                        drop_bean_error(u, c, cafes[c].latitude, cafes[c].longitude,
                                        existing) = "AlreadyDroppedToday"
                            => Cardinality(DropEventsOf(u, c))
                                   = cafe_beans[existing].drop_count

\* what an accepted drop writes is given by the drop events, the user's bean
\* at the cafe, the beans of the cafe and the stored streak
C18_Effect ==
    (nops' = nops + 1 /\ resp'.op = "drop_bean") =>
        LET u == resp'.user
            c == resp'.cafe_id
            own == BeansOf(cafe_beans, c, u)
            n == Len(cafe_bean_drops)
            streak == Cardinality(LeadingRun(
                          {DateOf(cafe_bean_drops'[i].dropped_at) :
                              i \in {j \in DOMAIN cafe_bean_drops' :
                                        cafe_bean_drops'[j].user_id = u}}))
            holders == {cafe_beans'[i].user_id :
                           i \in {j \in DOMAIN cafe_beans' : cafe_beans'[j].cafe_id = c}}
        IN  /\ Len(cafe_bean_drops') = n + 1
            /\ SubSeq(cafe_bean_drops', 1, n) = cafe_bean_drops
            /\ cafe_bean_drops'[n + 1].user_id = u
            /\ cafe_bean_drops'[n + 1].cafe_id = c
            /\ cafe_bean_drops'[n + 1].dropped_at = now
            /\ \A i \in DOMAIN cafe_beans :
                  i \notin own => cafe_beans'[i] = cafe_beans[i]
            /\ Cardinality(BeansOf(cafe_beans', c, u)) = 1
            /\ \A i \in BeansOf(cafe_beans', c, u) :
                  /\ cafe_beans'[i].drop_count =
                        IF own = {} THEN 1 ELSE cafe_beans[i].drop_count + 1
                  /\ cafe_beans'[i].growth_level =
                        calculate_growth_level(cafe_beans'[i].drop_count)
                  /\ cafe_beans'[i].last_dropped_at = now
            /\ users'[u].current_streak = streak
            /\ users'[u].max_streak =
                  Max(streak, IF users[u].max_streak = 0 THEN 1 ELSE users[u].max_streak)
            /\ \A v \in Users \ {u} : users'[v] = users[v]
            /\ \A d \in DOMAIN cafes \ {c} : cafes'[d] = cafes[d]
            /\ cafes'[c].status =
                  IF cafes[c].status = "verified" \/ Cardinality(holders) >= 3
                  THEN "verified" ELSE "pending"
            /\ resp'.triggered_verification =
                  (cafes[c].status = "pending" /\ cafes'[c].status = "verified")

\* a drop is rejected after the fraud check only by the daily limit, the
\* user having dropped today at the cafe they stand at, and then writes
\* nothing but the fraud log
C18_Rejected ==
    nops' = nops =>
        /\ UNCHANGED <<cafes, cafe_checkins, cafe_beans, cafe_bean_drops, cafe_visits,
                       users, resp>>
        /\ \A i \in DOMAIN fraud_logs' \ DOMAIN fraud_logs :
              \E c \in DOMAIN cafes :
                 /\ calculate_earth_distance(fraud_logs'[i].current_lat,
                        fraud_logs'[i].current_lng, cafes[c].latitude,
                        cafes[c].longitude) <= Dm(50)
                 /\ \E b \in BeansOf(cafe_beans, c, fraud_logs'[i].user_id) :
                       DateOf(cafe_beans[b].last_dropped_at) = DateOf(now)

\* C18: fraud detection is log-only: whether drop_bean accepts a drop and
\* the bean, drop event, streak and cafe state it leaves are determined
\* without the user's previous drop location and time, so two executions
\* that differ only in these have the same outcome; a failure inside the
\* check does not fail the drop.
C18_FraudLogOnly == [][C18_Effect /\ C18_Rejected]_vars

\* a drop accepted although the check logged a speed of more than 1000 km/h
C18_Witness ==
    /\ resp.op = "drop_bean" /\ resp.user = "u2" /\ resp.cafe_id = 1
    /\ \E i \in DOMAIN fraud_logs :
          fraud_logs[i].user_id = "u2" /\ fraud_logs[i].severity = "high"

\* no stored cafe lies less than 25 m (exact distance) from the point
NoCafeWithin25m(lat, lng) ==
    \A i \in DOMAIN cafes :
        calculate_earth_distance(lat, lng, cafes[i].latitude, cafes[i].longitude)
            >= Dm(25)

\* the rows a registration by u at the point adds: one cafe, one check-in,
\* one bean and one drop event, every other row as it was
NewCafeRows(u, lat, lng) ==
    LET c == Len(cafes) + 1
        k == Len(cafe_checkins) + 1
        b == Len(cafe_beans) + 1
        d == Len(cafe_bean_drops) + 1
    IN  /\ Len(cafes') = c /\ SubSeq(cafes', 1, c - 1) = cafes
        /\ cafes'[c].latitude = lat /\ cafes'[c].longitude = lng
        /\ cafes'[c].status = "pending"
        /\ cafes'[c].verification_count = 1
        /\ cafes'[c].navigator_id = u
        /\ cafes'[c].vanguard_ids = <<>>
        /\ Len(cafe_checkins') = k /\ SubSeq(cafe_checkins', 1, k - 1) = cafe_checkins
        /\ cafe_checkins'[k] = [cafe_id |-> c, user_id |-> u, checkin_order |-> 1,
                                 founding_role |-> "navigator",
                                 triggered_verification |-> FALSE]
        /\ Len(cafe_beans') = b /\ SubSeq(cafe_beans', 1, b - 1) = cafe_beans
        /\ cafe_beans'[b].cafe_id = c /\ cafe_beans'[b].user_id = u
        /\ cafe_beans'[b].drop_count = 1 /\ cafe_beans'[b].growth_level = 1
        /\ Len(cafe_bean_drops') = d
        /\ SubSeq(cafe_bean_drops', 1, d - 1) = cafe_bean_drops
        /\ cafe_bean_drops'[d].cafe_id = c /\ cafe_bean_drops'[d].user_id = u
        /\ cafe_bean_drops'[d].bean_id = b
        /\ ~resp'.triggered_verification

\* C19: a register request accepted at a point with no cafe within 25 m
\* creates exactly one cafe (pending, verification_count 1, the reporter as
\* navigator, no vanguards), exactly one check-in (order 1, navigator, not
\* triggering), exactly one bean of the reporter (drop_count 1, growth
\* level 1) and one drop event.
C19_RegisterCreatesOneOfEach ==
    [][\A u \in Users, site \in StreetSites, user_location \in UserLocs \cup {NoLoc} :
          (/\ NoCafeWithin25m(site.lat, site.lng)
           /\ register_cafe(u, site.lat, site.lng, user_location, TRUE))
              => NewCafeRows(u, site.lat, site.lng)]_vars

\* a second cafe registered next to a first one that is not within 25 m
C19_Witness ==
    /\ Len(cafes) = 2
    /\ resp.op = "register" /\ resp.cafe_id = 2
    /\ calculate_earth_distance(cafes[1].latitude, cafes[1].longitude,
                                cafes[2].latitude, cafes[2].longitude) >= Dm(25)
    /\ Len(cafe_checkins) = 2 /\ Len(cafe_beans) = 2 /\ Len(cafe_bean_drops) = 2

\* exact distance between a point and a stored cafe, in decimetres
DistanceToCafe(at, cafe_id) ==
    calculate_earth_distance(at.lat, at.lng, cafes[cafe_id].latitude,
                             cafes[cafe_id].longitude)

\* the distance check of drop_bean raises exactly for the points more than
\* 50 m from the cafe
C20_GateRaises ==
    \A u \in Users, c \in DOMAIN cafes, at \in GateLocs :
        \A existing \in ExistingBean(c, u) :
            (drop_bean_error(u, c, at.lat, at.lng, existing) = "DistanceTooFar")
                <=> (DistanceToCafe(at, c) > Dm(50))

\* a drop is accepted only from a point within 50 m, and from such a point
\* whenever the user has no bean of today at the cafe
C20_GateSteps ==
    \A u \in Users, c \in DOMAIN cafes, at \in GateLocs :
        /\ drop_bean(u, c, at.lat, at.lng) => DistanceToCafe(at, c) <= Dm(50)
        /\ (/\ DistanceToCafe(at, c) <= Dm(50)
            /\ \A b \in BeansOf(cafe_beans, c, u) :
                  DateOf(cafe_beans[b].last_dropped_at) # DateOf(now))
              => drop_bean_error(u, c, at.lat, at.lng,
                                 CHOOSE e \in ExistingBean(c, u) : TRUE) = ""

GrowthSteps(n) ==
    CASE n < 3 -> 1
      [] 3 <= n /\ n < 5 -> 2
      [] 5 <= n /\ n < 10 -> 3
      [] 10 <= n /\ n < 15 -> 4
      [] n >= 15 -> 5

\* C21: calculate_growth_level is the step function 1 for n < 3, 2 for
\* 3 <= n < 5, 3 for 5 <= n < 10, 4 for 10 <= n < 15, 5 for n >= 15 on
\* every non-negative n; it never decreases and takes values in 1..5 only;
\* the level a drop stores is the one of the drop count it stores.
C21_GrowthLevelSteps ==
    /\ \A n \in 0..(MaxDropCount + 1) :
          /\ calculate_growth_level(n) = GrowthSteps(n)
          /\ calculate_growth_level(n) \in 1..5
          /\ calculate_growth_level(n) <= calculate_growth_level(n + 1)
    /\ calculate_growth_level(2) = 1 /\ calculate_growth_level(3) = 2
    /\ calculate_growth_level(4) = 2 /\ calculate_growth_level(5) = 3
    /\ calculate_growth_level(14) = 4 /\ calculate_growth_level(15) = 5
    /\ \A i \in DOMAIN cafe_beans :
          cafe_beans[i].growth_level = GrowthSteps(cafe_beans[i].drop_count)

\* the fifteenth drop on a bean has just been stored with level 5
C21_Witness ==
    /\ resp.op = "drop_bean"
    /\ \E i \in DOMAIN cafe_beans :
          cafe_beans[i].drop_count = 15 /\ cafe_beans[i].growth_level = 5

\* the time of the first drop of a user at a cafe
FirstDropAt(beans, c, u) ==
    Min({beans[i].first_dropped_at : i \in BeansOf(beans, c, u)})

\* the users with a bean at the cafe, by first drop ascending
DroppersInOrder(beans, c) ==
    LET U == {beans[i].user_id : i \in {j \in DOMAIN beans : beans[j].cafe_id = c}}
    IN  [k \in 1..Cardinality(U) |->
            CHOOSE u \in U :
                Cardinality({v \in U : FirstDropAt(beans, c, v) < FirstDropAt(beans, c, u)})
                    = k - 1]

\* C22: when a drop_bean makes the number of distinct users with a bean at a
\* pending cafe reach 3, the cafe becomes verified, its navigator_id is the
\* earliest dropper and its vanguard_ids hold exactly the two other
\* droppers, in order of first drop, with roles vanguard_1 and vanguard_2.
C22_BeanCrewByFirstDrop ==
    [][\A c \in DOMAIN cafes :
          (/\ nops' = nops + 1 /\ resp'.op = "drop_bean" /\ resp'.cafe_id = c
           /\ cafes[c].status = "pending"
           /\ Cardinality(BeanHolders(c)) = 2
           /\ Len(DroppersInOrder(cafe_beans', c)) = 3)
              => LET crew == DroppersInOrder(cafe_beans', c)
                 IN  /\ cafes'[c].status = "verified"
                     /\ cafes'[c].navigator_id = crew[1]
                     /\ Len(cafes'[c].vanguard_ids) = 2
                     /\ \A k \in 1..2 :
                          /\ cafes'[c].vanguard_ids[k].user_id = crew[k + 1]
                          /\ cafes'[c].vanguard_ids[k].role = k]_vars

\* C23: a fraud log entry is written only when a speed was computed from a
\* previous location and a positive elapsed time, and its severity is not
\* "none": no entry without a speed (elapsed time zero or negative, previous
\* coordinates zero-valued), none for a speed of at most 100 km/h.
C23_LogOnlyWithSpeed ==
    \A i \in DOMAIN fraud_logs :
        /\ fraud_logs[i].has_speed
        /\ fraud_logs[i].severity \in {"low", "medium", "high"}

\* C24: a rejected drop_bean (cafe not found, more than 50 m away, already
\* dropped today) is a no-op: it changes no bean, no drop event, no streak
\* field, no cafe and no fraud log.
C24_RejectedDropIsNoOp ==
    [][\A u \in Users, c \in CafeIds, at \in UserLocs :
          (drop_bean(u, c, at.lat, at.lng) /\ resp' = resp /\ nops' = nops)
              => UNCHANGED <<cafe_beans, cafe_bean_drops, users, cafes, fraud_logs>>]_vars

\* C25: check_nearby_cafes(lat, lng, t) returns a cafe if and only if some
\* stored cafe lies at exact distance strictly less than t from the point:
\* the bounding-box prefetch excludes no cafe inside the circle; of several
\* matches it returns the first in store order.
C25_NearbyFindsIffInCircle ==
    \A site \in GeoSites :
        LET inside == {c \in DOMAIN cafes :
                          calculate_earth_distance(site.lat, site.lng,
                              cafes[c].latitude, cafes[c].longitude) < Dm(25)}
        IN  /\ (check_nearby_cafes(site.lat, site.lng, 25) # {}) <=> (inside # {})
            /\ inside # {} => Min(inside) \in check_nearby_cafes(site.lat, site.lng, 25)

\* C26: in every reachable state all cafes have pairwise distinct slugs,
\* after any sequence of registrations with equal or colliding names, also
\* when the slug lookup and the cafe insert of two registrations interleave.
C26_SlugsDistinct ==
    \A i, j \in DOMAIN cafes : cafes[i].slug = cafes[j].slug => i = j

\* the entry of key k is older than the expiry time
Expired(k) ==
    trending.clock - trending.cache[k].cached_at > TRENDING_CACHE_TTL

\* a lookup returns data only of its own key, at most 300 s old and stored
\* since the last clear; it removes the entry when expired and no other
C27_Get ==
    trending'.op = "get" =>
        LET key == trending'.key
            data == trending'.returned
        IN  /\ data # NoData =>
                  /\ data.key = key
                  /\ trending.clock - data.at <= TRENDING_CACHE_TTL
                  /\ data.epoch = trending.clears
            /\ (key \in DOMAIN trending.cache /\ Expired(key))
                  => (data = NoData /\ key \notin DOMAIN trending'.cache)
            /\ \A k \in DOMAIN trending.cache \ {key} :
                  k \in DOMAIN trending'.cache /\ trending'.cache[k] = trending.cache[k]

\* a store removes expired entries only, and only from a dict of more than
\* 200 entries
C27_Set ==
    trending'.op = "set" =>
        \A k \in DOMAIN trending.cache \ DOMAIN trending'.cache :
            Expired(k) /\ Cardinality(DOMAIN trending.cache) > 200

\* C27: the trending cache never serves expired data: after any sequence of
\* set, get, clear and clock advances, _get_trending_cached(key) returns
\* data only if it was stored under that key at most 300 s earlier and the
\* cache was not cleared since; an expired entry is removed on lookup;
\* _set_trending_cache removes only expired entries, and only when the map
\* holds more than 200, never a fresh one.
C27_CacheNeverStale == [][C27_Get /\ C27_Set]_vars

\* a store into a dict of more than 200 entries has evicted the expired
\* ones and kept the fresh entry of key 1; a lookup of key 1 then hits
C27_Witness ==
    /\ trending.op = "set" /\ trending.key = 2
    /\ DOMAIN trending.cache = {1, 2}
    /\ trending.cache[1].cached_at = TRENDING_CACHE_TTL
    /\ trending.clock = TRENDING_CACHE_TTL + 1

\* the check-in rows of a cafe
CheckinsOf(checkins, c) == {i \in DOMAIN checkins : checkins[i].cafe_id = c}

\* the check-ins of every cafe carry the orders 1..n once each, n being the
\* cafe's verification_count, and the navigator role exactly at order 1
CheckinsNumbered(cs, checkins) ==
    \A c \in DOMAIN cs :
        LET rows == CheckinsOf(checkins, c)
            n == Cardinality(rows)
        IN  /\ cs[c].verification_count = n
            /\ {checkins[i].checkin_order : i \in rows} = 1..n
            /\ \A i \in rows :
                  (checkins[i].founding_role = "navigator")
                      <=> (checkins[i].checkin_order = 1)

\* C28: with register requests running one at a time and every write
\* succeeding, each inserted check-in has checkin_order equal to the
\* cafe's verification_count right after the request, so a cafe's
\* check-ins carry the orders 1..n without gap or duplicate, n is the
\* verification_count and the number of check-in rows, and founding_role
\* is navigator exactly for order 1.
C28_OrdersAreOneToN ==
    [][/\ CheckinsNumbered(cafes', cafe_checkins')
       /\ \A i \in DOMAIN cafe_checkins' \ DOMAIN cafe_checkins :
             cafe_checkins'[i].checkin_order =
                 cafes'[cafe_checkins'[i].cafe_id].verification_count]_vars

\* the third check-in at a cafe has just been recorded
C28_Witness ==
    /\ resp.op = "register"
    /\ \E c \in DOMAIN cafes :
          /\ cafes[c].verification_count = 3
          /\ {cafe_checkins[i].checkin_order : i \in CheckinsOf(cafe_checkins, c)}
                = 1..3

\* C29: read/write streak asymmetry: the stored current_streak is changed
\* only by the recompute of an accepted drop of that user, never by a read
\* of the streak, which returns the stored value with streak_active false
\* once the last drop is more than 7 days old; so a state is reachable in
\* which the read returns streak_active = false with current_streak > 1.
C29_StreakChangedByDropOnly ==
    [][/\ \A u \in Users :
             users'[u].current_streak # users[u].current_streak
                 => /\ resp'.op = "drop_bean" /\ resp'.user = u
                    /\ nops' = nops + 1
       /\ (resp'.op = "get_streak" /\ resp' # resp)
             => /\ users' = users
                /\ resp'.current_streak = users[resp'.user].current_streak
                /\ resp'.streak_active =
                      (/\ users[resp'.user].last_drop_date # NoTime
                       /\ DateOf(now) - users[resp'.user].last_drop_date <= 7)]_vars

\* the read of a streak of 2 whose last drop is more than 7 days old
C29_Witness ==
    /\ resp.op = "get_streak"
    /\ ~resp.streak_active
    /\ resp.current_streak > 1
    /\ users[resp.user].current_streak = resp.current_streak
    /\ DateOf(now) - users[resp.user].last_drop_date > 7
    /\ \A i \in DOMAIN cafe_bean_drops :
          cafe_bean_drops[i].user_id = resp.user
              => DateOf(now) - DateOf(cafe_bean_drops[i].dropped_at) > 7

\* the roles whose permission list holds cafe:create
CreatorRoles == {"admin", "cafe_owner"}

\* a caller of another role gets the 403 whatever the request holds
C30_Forbidden ==
    \A u \in Callers, site \in StreetSites, user_location \in UserLocs \cup {NoLoc},
       road \in BOOLEAN :
        RoleOf(u) \notin CreatorRoles
            => /\ register_error(u, site.lat, site.lng, user_location, road) = "Forbidden"
               /\ ~register_cafe(u, site.lat, site.lng, user_location, road)

\* every cafe, check-in and bean that register has written is a creator's
C30_RowsOfCreators ==
    /\ \A i \in DOMAIN cafes' : RoleOf(cafes'[i].navigator_id) \in CreatorRoles
    /\ \A i \in DOMAIN cafe_checkins' : RoleOf(cafe_checkins'[i].user_id) \in CreatorRoles
    /\ \A i \in DOMAIN cafe_beans' : RoleOf(cafe_beans'[i].user_id) \in CreatorRoles

\* C30: POST /cafes/register is gated by the cafe:create permission: a
\* caller whose role is "user" (the default role) or "guest" is rejected
\* with 403 before any other check, and no cafe, check-in or bean is
\* created; only admin and cafe_owner create cafes or check in through
\* register.
C30_RegisterNeedsCreateCafe == [][C30_Forbidden /\ C30_RowsOfCreators]_vars

\* an owner has registered a cafe and an admin has checked in, where the
\* same request of a user, a guest or a caller without a profile is refused
C30_Witness ==
    /\ resp.op = "register"
    /\ Len(cafes) >= 1
    /\ \E i \in DOMAIN cafe_checkins : RoleOf(cafe_checkins[i].user_id) = "admin"
    /\ \E i \in DOMAIN cafe_checkins : RoleOf(cafe_checkins[i].user_id) = "cafe_owner"
    /\ \A u \in {"u4", "u5", "u6"} :
          register_error(u, SiteA.lat, SiteA.lng, NoLoc, TRUE) = "Forbidden"

====
